---- MODULE Spec2Model ----
(***************************************************************************)
(* mmdebug: the command-line entry point (main), the five TLS probes       *)
(* (testTLSHandshake, testTLSHandshakeInsecure, testTLSHandshakeWithSNI,   *)
(* testPostgresSTARTTLS, testLDAPSTARTTLS) and the two name-resolution     *)
(* functions (tlsVersionString, cipherSuiteString).                        *)
(*                                                                         *)
(* Go strings are TLA+ strings, except where the program looks inside a    *)
(* string: the -mode flag (strings.ToLower) is a sequence of characters,   *)
(* and everything that goes over the wire or is formatted from a byte is a *)
(* sequence of byte values 0..255.                                         *)
(***************************************************************************)
EXTENDS Integers, Sequences, FiniteSets, TLC

VARIABLES
    host, port, timeout, mode, sni,   \* the parsed flags of main
    pc,                               \* position of the program
    exitCode,                         \* -1 while running, else the exit status
    stderr, stdout,                   \* what main and the print functions wrote
    result,                           \* the *tlsTestResult of the running probe
    tcpErr,                           \* the error of testTCPConnection
    config,                           \* the tls.Config of the running probe
    nextFd, open, conn, tlsConn,      \* connections: ids, open ones, locals
    dialed,                           \* address of every dial made
    steps,                            \* log of the I/O steps taken
    wire,                             \* plaintext bytes written on conn
    inbound,                          \* bytes the server sent, not yet read
    response, nRead,                  \* the probe's read buffer and byte count
    bufd,                             \* bytes held in the bufio.Reader
    hsInput,                          \* unread bytes the TLS layer starts on
    peer,                             \* what the dialed server does
    arg, fn, str,                     \* input, callee and output of a name lookup
    call, param,                      \* the system.go function called, its parameter
    cpc, wpc,                         \* position of the caller and of its goroutine
    done,                             \* the buffer of the done channel
    ctxDone,                          \* ctx.Done() is closed
    pending,                          \* the value the goroutine is about to send
    outcomes,                         \* what the caller returned
    expected, actual, matches         \* the fields of a sysctlInfo

vars == <<host, port, timeout, mode, sni, pc, exitCode, stderr, stdout, result,
          tcpErr, config, nextFd, open, conn, tlsConn, dialed, steps, wire, inbound,
          response, nRead, bufd, hsInput, peer, arg, fn, str, call, param,
          cpc, wpc, done, ctxDone, pending, outcomes, expected, actual,
          matches>>

flagVars == <<host, port, timeout, mode, sni>>
netVars == <<nextFd, open, conn, tlsConn, dialed, steps, wire, inbound,
             response, nRead, bufd, hsInput, peer>>
nameVars == <<arg, fn, str>>
workVars == <<call, param, cpc, wpc, done, ctxDone, pending, outcomes>>
cmpVars == <<expected, actual, matches>>
sysVars == <<workVars, cmpVars>>

(***************************************************************************)
(* Bounds of the model.                                                    *)
(***************************************************************************)
MaxCerts == 2        \* peer certificates a server presents: 1..MaxCerts
MaxStrLen == 3       \* characters of a sysctl value: 0..MaxStrLen
MaxReplyLen == 12    \* short LDAP replies have every length 0..MaxReplyLen

(***************************************************************************)
(* Program constants.                                                      *)
(***************************************************************************)
UInt16Max == 65535          \* version and suite are uint16
ByteMax == 255              \* response is []byte
DefaultPort == 443
DefaultTimeout == 10
AckSSL == 83                \* 'S'
MinLDAPResponse == 10
ResponseBufSize == 1024
BufioSize == 4096

(***************************************************************************)
(* fmt.Sprintf verbs used by the program.                                  *)
(***************************************************************************)
digits == <<"0", "1", "2", "3", "4", "5", "6", "7",
            "8", "9", "a", "b", "c", "d", "e", "f">>

RECURSIVE FmtHexNoPad(_)
FmtHexNoPad(u) ==
    IF u < 16 THEN digits[u + 1]
    ELSE FmtHexNoPad(u \div 16) \o digits[(u % 16) + 1]

RECURSIVE PadZero(_, _)
PadZero(s, wid) == IF Len(s) >= wid THEN s ELSE PadZero("0" \o s, wid)

\* a %04x that forgets the zero flag: "%x"
Sprintf04x_unpadded(u) == FmtHexNoPad(u)

\* %04x on an unsigned 16-bit value
Sprintf04x(u) == PadZero(FmtHexNoPad(u), 4)

\* "Unknown (0x%04x)"
SprintfUnknown(u) == "Unknown (0x" \o Sprintf04x(u) \o ")"

\* %d on a non-negative int, as bytes
RECURSIVE SprintfD(_)
SprintfD(k) ==
    IF k < 10 THEN <<48 + k>> ELSE SprintfD(k \div 10) \o <<48 + (k % 10)>>

\* %c on a byte: the byte is taken as a code point and written in UTF-8
SprintfC(b) ==
    IF b < 128 THEN <<b>> ELSE <<192 + (b \div 64), 128 + (b % 64)>>

(***************************************************************************)
(* tlsVersionString and cipherSuiteString.                                 *)
(***************************************************************************)
\* a version switch that lost its SSL 3.0 case
tlsVersionString_noSSL3(version) ==
    CASE version = \H0301 -> "TLS 1.0"
      [] version = \H0302 -> "TLS 1.1"
      [] version = \H0303 -> "TLS 1.2"
      [] version = \H0304 -> "TLS 1.3"
      [] OTHER -> SprintfUnknown(version)

tlsVersionString(version) ==
    CASE version = \H0300 -> "SSL 3.0"
      [] version = \H0301 -> "TLS 1.0"
      [] version = \H0302 -> "TLS 1.1"
      [] version = \H0303 -> "TLS 1.2"
      [] version = \H0304 -> "TLS 1.3"
      [] OTHER -> SprintfUnknown(version)

suites ==
    \H0004 :> "TLS_RSA_WITH_RC4_128_MD5" @@
    \H0005 :> "TLS_RSA_WITH_RC4_128_SHA" @@
    \H000a :> "TLS_RSA_WITH_3DES_EDE_CBC_SHA" @@
    \H002f :> "TLS_RSA_WITH_AES_128_CBC_SHA" @@
    \H0035 :> "TLS_RSA_WITH_AES_256_CBC_SHA" @@
    \H003c :> "TLS_RSA_WITH_AES_128_CBC_SHA256" @@
    \H003d :> "TLS_RSA_WITH_AES_256_CBC_SHA256" @@
    \H009c :> "TLS_RSA_WITH_AES_128_GCM_SHA256" @@
    \H009d :> "TLS_RSA_WITH_AES_256_GCM_SHA384" @@
    \Hc007 :> "TLS_ECDHE_ECDSA_WITH_RC4_128_SHA" @@
    \Hc009 :> "TLS_ECDHE_ECDSA_WITH_AES_128_CBC_SHA" @@
    \Hc00a :> "TLS_ECDHE_ECDSA_WITH_AES_256_CBC_SHA" @@
    \Hc011 :> "TLS_ECDHE_RSA_WITH_RC4_128_SHA" @@
    \Hc013 :> "TLS_ECDHE_RSA_WITH_AES_128_CBC_SHA" @@
    \Hc014 :> "TLS_ECDHE_RSA_WITH_AES_256_CBC_SHA" @@
    \Hc023 :> "TLS_ECDHE_ECDSA_WITH_AES_128_CBC_SHA256" @@
    \Hc024 :> "TLS_ECDHE_ECDSA_WITH_AES_256_CBC_SHA384" @@
    \Hc027 :> "TLS_ECDHE_RSA_WITH_AES_128_CBC_SHA256" @@
    \Hc028 :> "TLS_ECDHE_RSA_WITH_AES_256_CBC_SHA384" @@
    \Hc02b :> "TLS_ECDHE_ECDSA_WITH_AES_128_GCM_SHA256" @@
    \Hc02c :> "TLS_ECDHE_ECDSA_WITH_AES_256_GCM_SHA384" @@
    \Hc02f :> "TLS_ECDHE_RSA_WITH_AES_128_GCM_SHA256" @@
    \Hc030 :> "TLS_ECDHE_RSA_WITH_AES_256_GCM_SHA384" @@
    \H1301 :> "TLS_AES_128_GCM_SHA256" @@
    \H1302 :> "TLS_AES_256_GCM_SHA384" @@
    \H1303 :> "TLS_CHACHA20_POLY1305_SHA256"

cipherSuiteString(suite) ==
    IF suite \in DOMAIN suites THEN suites[suite] ELSE SprintfUnknown(suite)

(***************************************************************************)
(* Values of the program.                                                  *)
(***************************************************************************)
\* error values: nil, or fmt.Errorf(msg, arg...) wrapping an underlying error
NoError == [nil |-> TRUE, msg |-> "", arg |-> <<>>, wrapped |-> ""]
Errorf(msg, a, w) == [nil |-> FALSE, msg |-> msg, arg |-> a, wrapped |-> w]

\* tlsTestResult with every field at its zero value
ZeroResult ==
    [success |-> FALSE, version |-> 0, cipherSuite |-> 0, serverName |-> "",
     peerCertificates |-> 0, err |-> NoError]

\* a result constructor that leaves serverName empty
NewResult_unnamed(name) == ZeroResult

\* result := &tlsTestResult{serverName: ...}
NewResult(name) == [ZeroResult EXCEPT !.serverName = name]

\* an extraction that forgets result.success = true
Extract_unflagged(res, state) ==
    [res EXCEPT !.version = state.Version,
                !.cipherSuite = state.CipherSuite,
                !.peerCertificates = state.PeerCertificates]

\* the handshake-derived fields of a successful result
Extract(res, state) ==
    [res EXCEPT !.success = TRUE,
                !.version = state.Version,
                !.cipherSuite = state.CipherSuite,
                !.peerCertificates = state.PeerCertificates]

\* the struct {value string; err error} and struct {proc; err} sent on done,
\* and the (value, error) pair a caller returns
Outcome(v, e) == [value |-> v, err |-> e]
NoOutcome == Outcome("", "")

NoConfig == [ServerName |-> "", InsecureSkipVerify |-> FALSE]

\* a config that always announces the dial host
TLSConfig_dialHost(name, insecure) ==
    [ServerName |-> host, InsecureSkipVerify |-> insecure]

TLSConfig(name, insecure) ==
    [ServerName |-> name, InsecureSkipVerify |-> insecure]

\* a deferred close that is never run
DeferredClose_leak(o, c) == o

\* defer conn.Close()
DeferredClose(o, c) == o \ {c}

\* the upgrade frames
\* an SSLRequest with the GSSENCRequest code 80877104
sslRequest_gssenc == <<\H00, \H00, \H00, \H08, \H04, \Hd2, \H16, \H30>>

sslRequest == <<\H00, \H00, \H00, \H08, \H04, \Hd2, \H16, \H2f>>

startTLSRequest ==
    <<\H30, \H1d,
      \H02, \H01, \H01,
      \H77, \H18,
      \H80, \H16,
      \H31, \H2e, \H33, \H2e, \H36, \H2e, \H31, \H2e,
      \H34, \H2e, \H31, \H2e, \H31, \H34, \H36, \H36,
      \H2e, \H32, \H30, \H30, \H33, \H37>>

(***************************************************************************)
(* strings.ToLower on the -mode flag.                                      *)
(***************************************************************************)
upperCase == <<"A", "B", "C", "D", "E", "F", "G", "H", "I", "J", "K", "L", "M",
               "N", "O", "P", "Q", "R", "S", "T", "U", "V", "W", "X", "Y", "Z">>
lowerCase == <<"a", "b", "c", "d", "e", "f", "g", "h", "i", "j", "k", "l", "m",
               "n", "o", "p", "q", "r", "s", "t", "u", "v", "w", "x", "y", "z">>

ToLowerChar(c) ==
    IF \E i \in DOMAIN upperCase : upperCase[i] = c
    THEN lowerCase[CHOOSE i \in DOMAIN upperCase : upperCase[i] = c]
    ELSE c

ToLower(s) == [i \in DOMAIN s |-> ToLowerChar(s[i])]

mode_tcp == <<"t", "c", "p">>
mode_tls == <<"t", "l", "s">>
mode_tls_insecure == <<"t", "l", "s", "-", "i", "n", "s", "e", "c", "u", "r", "e">>
mode_tls_sni == <<"t", "l", "s", "-", "s", "n", "i">>
mode_tls_postgres == <<"t", "l", "s", "-", "p", "o", "s", "t", "g", "r", "e", "s">>
mode_tls_ldap == <<"t", "l", "s", "-", "l", "d", "a", "p">>
mode_ulimits == <<"u", "l", "i", "m", "i", "t", "s">>
mode_mm_env == <<"m", "m", "-", "e", "n", "v">>
mode_sysctl == <<"s", "y", "s", "c", "t", "l">>

(***************************************************************************)
(* The environment: command lines, and what networks and servers do.       *)
(***************************************************************************)
Hosts == {"", "db.internal", "ldap.internal"}
Ports == {DefaultPort, 5432}
Timeouts == {DefaultTimeout, 1}
SNIs == {"", "alt.example"}
ModeInputs ==
    {mode_tcp, mode_tls, mode_tls_insecure, mode_tls_sni, mode_tls_postgres,
     mode_tls_ldap, mode_ulimits, mode_mm_env, mode_sysctl,
     <<"U", "L", "I", "M", "I", "T", "S">>,
     <<"S", "y", "s", "c", "t", "l">>,
     <<"T", "L", "S", "-", "L", "D", "A", "P">>,
     <<"u", "d", "p">>}

DialErrs == {"connect: connection refused", "i/o timeout"}
WriteErrs == {"write: broken pipe"}
ReadErrs == {"EOF", "read: connection reset by peer"}
HandshakeErrs(insecure) ==
    {"remote error: tls: handshake failure"}
        \cup (IF insecure THEN {}
              ELSE {"x509: certificate signed by unknown authority"})
LocalErrs == {"not supported"}

\* what tls.Conn.ConnectionState() can report after a completed handshake
ConnectionStates ==
    [Version : {\H0303, \H0304},
     CipherSuite : {\H1301, \Hcca8},
     PeerCertificates : 1..MaxCerts]

Bytes == 0..ByteMax

Take(s, k) == SubSeq(s, 1, IF k < Len(s) THEN k ELSE Len(s))
Drop(s, k) == SubSeq(s, k + 1, Len(s))
Fill(b, k) == [i \in 1..k |-> b]
Min(a, b) == IF a < b THEN a ELSE b

\* what a PostgreSQL port may have sent when the probe reads: any first
\* byte, alone or followed by more ('E' starts an ErrorResponse message)
PgTails == {<<>>, <<\H00, \H00, \H00, \H09>>}
PgStreams == {<<b>> \o t : b \in Bytes, t \in PgTails}

\* LDAP ExtendedResponse, messageID 1: resultCode success(0) and
\* protocolError(2)
ExtendedResponseOK ==
    <<\H30, \H0c, \H02, \H01, \H01, \H78, \H07,
      \H0a, \H01, \H00, \H04, \H00, \H04, \H00>>
ExtendedResponseRefused ==
    <<\H30, \H0c, \H02, \H01, \H01, \H78, \H07,
      \H0a, \H01, \H02, \H04, \H00, \H04, \H00>>

FillBytes == {\H00, \Hff}
ReplyLens ==
    (1..MaxReplyLen)
        \cup {Len(ExtendedResponseOK), ResponseBufSize, ResponseBufSize + 1,
              BufioSize + 1}

\* what an LDAP port may have sent when the probe reads: a response or
\* none, followed by arbitrary bytes, cut at any of the lengths
LDAPStreams ==
    {Take(doc \o Fill(f, len), len) :
        doc \in {<<>>, ExtendedResponseOK, ExtendedResponseRefused},
        f \in FillBytes, len \in ReplyLens}

(***************************************************************************)
(* Initial state: the flags are parsed, nothing has run.                   *)
(***************************************************************************)
Idle ==
    /\ exitCode = -1
    /\ stderr = <<>>
    /\ stdout = <<>>
    /\ result = ZeroResult
    /\ tcpErr = NoError
    /\ config = NoConfig
    /\ nextFd = 1
    /\ open = {}
    /\ conn = 0
    /\ tlsConn = 0
    /\ dialed = <<>>
    /\ steps = <<>>
    /\ wire = <<>>
    /\ inbound = <<>>
    /\ response = <<>>
    /\ nRead = 0
    /\ bufd = <<>>
    /\ hsInput = <<>>
    /\ peer = "none"

\* no function of system.go is running
IdleWork ==
    /\ call = ""
    /\ param = ""
    /\ cpc = "none"
    /\ wpc = "none"
    /\ done = <<>>
    /\ ctxDone = FALSE
    /\ pending = NoOutcome
    /\ outcomes = <<>>

IdleCmp ==
    /\ expected = <<>>
    /\ actual = <<>>
    /\ matches = FALSE

IdleSys == IdleWork /\ IdleCmp

Init ==
    /\ host \in Hosts
    /\ port \in Ports
    /\ timeout \in Timeouts
    /\ mode \in ModeInputs
    /\ sni \in SNIs
    /\ pc = "main"
    /\ Idle
    /\ arg = 0
    /\ fn = ""
    /\ str = ""
    /\ IdleSys

Step(op, fd) == [op |-> op, fd |-> fd]
Address == [host |-> host, port |-> port, timeout |-> timeout]
Line(format, args) == [format |-> format, args |-> args]

\* os.Exit(code), or falling off the end of main
Exit(code) ==
    /\ exitCode' = code
    /\ pc' = "exit"

(***************************************************************************)
(* main                                                                    *)
(***************************************************************************)
\* the host check
main_RequireHost ==
    /\ pc = "main"
    /\ IF host = "" /\ mode # mode_ulimits /\ mode # mode_mm_env
                    /\ mode # mode_sysctl
       THEN /\ stderr' = Append(stderr, "Error: host is required")
            /\ Exit(1)
       ELSE /\ pc' = "switch"
            /\ UNCHANGED <<stderr, exitCode>>
    /\ UNCHANGED <<flagVars, stdout, result, tcpErr, config, netVars, nameVars, sysVars>>

\* an SNI check that lets every value through
SNIMissing_never(s) == FALSE

\* *sni == ""
SNIMissing(s) == s = ""

\* an exit status that ignores the result
ExitStatus_zero(res) == 0

\* if !result.success { os.Exit(1) }, else main ends with status 0
ExitStatus(res) == IF ~res.success THEN 1 ELSE 0

\* switch strings.ToLower(*mode)
main_Switch ==
    /\ pc = "switch"
    /\ LET m == ToLower(mode) IN
       CASE m = mode_tcp ->
                pc' = "testTCPConnection" /\ UNCHANGED <<stderr, exitCode>>
         [] m = mode_tls ->
                pc' = "testTLSHandshake" /\ UNCHANGED <<stderr, exitCode>>
         [] m = mode_tls_insecure ->
                pc' = "testTLSHandshakeInsecure"
                    /\ UNCHANGED <<stderr, exitCode>>
         [] m = mode_tls_sni ->
                IF SNIMissing(sni)
                THEN /\ stderr' = Append(stderr,
                                    "Error: SNI is required for tls-sni mode")
                     /\ Exit(1)
                ELSE pc' = "testTLSHandshakeWithSNI"
                        /\ UNCHANGED <<stderr, exitCode>>
         [] m = mode_tls_postgres ->
                pc' = "testPostgresSTARTTLS" /\ UNCHANGED <<stderr, exitCode>>
         [] m = mode_tls_ldap ->
                pc' = "testLDAPSTARTTLS" /\ UNCHANGED <<stderr, exitCode>>
         [] m \in {mode_ulimits, mode_mm_env, mode_sysctl} ->
                pc' = "local" /\ UNCHANGED <<stderr, exitCode>>
         [] OTHER ->
                /\ stderr' = stderr \o <<"Error: unknown mode",
                                         "Available modes">>
                /\ Exit(1)
    /\ UNCHANGED <<flagVars, stdout, result, tcpErr, config, netVars, nameVars, sysVars>>

\* cases "ulimits", "mm-env", "sysctl": PrintUlimits(),
\* PrintMattermostEnvironmentVariables(), PrintSysctls()
main_Local ==
    /\ pc = "local"
    /\ \/ \E e \in LocalErrs :
            /\ stdout' = Append(stdout, Line("Failed to get: %v", <<e>>))
            /\ Exit(1)
       \/ /\ stdout' = Append(stdout, Line("table", <<>>))
          /\ Exit(0)
    /\ UNCHANGED <<flagVars, stderr, result, tcpErr, config, netVars, nameVars, sysVars>>

\* testTCPConnection
testTCPConnection ==
    /\ pc = "testTCPConnection"
    /\ dialed' = Append(dialed, Address)
    /\ \/ \E e \in DialErrs :
            /\ tcpErr' = Errorf("TCP connection to %s failed after %v: %w",
                                <<>>, e)
            /\ steps' = Append(steps, Step("dial", 0))
            /\ UNCHANGED <<nextFd, open, conn>>
       \/ /\ conn' = nextFd
          /\ nextFd' = nextFd + 1
          /\ open' = DeferredClose(open \cup {nextFd}, nextFd)
          /\ steps' = steps \o <<Step("dial", nextFd), Step("close", nextFd)>>
          /\ tcpErr' = NoError
    /\ pc' = "printTCPResult"
    /\ UNCHANGED <<flagVars, exitCode, stderr, stdout, result, config, tlsConn,
                   wire, inbound, response, nRead, bufd, hsInput, peer, nameVars, sysVars>>

\* case "tcp": printTCPResult and the exit status
main_printTCPResult ==
    /\ pc = "printTCPResult"
    /\ stdout' = Append(stdout,
            IF ~tcpErr.nil
            THEN Line("TCP connection to %s:%d failed", <<host, port>>)
            ELSE Line("TCP connection to %s:%d successful", <<host, port>>))
    /\ Exit(IF ~tcpErr.nil THEN 1 ELSE 0)
    /\ UNCHANGED <<flagVars, stderr, result, tcpErr, config, netVars, nameVars, sysVars>>

\* printTLSResult
printTLSResult(res) ==
    IF res.success
    THEN <<Line("TLS connection to %s:%d successful", <<host, port>>),
           Line("  TLS Version: %s", <<tlsVersionString(res.version)>>),
           Line("  Cipher Suite: %s", <<cipherSuiteString(res.cipherSuite)>>),
           Line("  Server Name: %s", <<res.serverName>>),
           Line("  Peer Certificates: %d", <<res.peerCertificates>>)>>
    ELSE <<Line("TLS connection to %s:%d failed: %v", <<host, port, res.err>>)>>

\* cases "tls" .. "tls-ldap": printTLSResult and the exit status
main_printTLSResult ==
    /\ pc = "printTLSResult"
    /\ stdout' = stdout \o printTLSResult(result)
    /\ Exit(ExitStatus(result))
    /\ UNCHANGED <<flagVars, stderr, result, tcpErr, config, netVars, nameVars, sysVars>>

(***************************************************************************)
(* The probes.  A probe returns to main's printTLSResult call; the         *)
(* deferred conn.Close() runs at every return that follows it.             *)
(***************************************************************************)
Return(res) ==
    /\ result' = res
    /\ pc' = "printTLSResult"

\* what the server behind a STARTTLS port does once the connection is
\* accepted: it answers every step; it never sends a byte; it answers the
\* upgrade request and then sends nothing more
Peers == {"responsive", "silent", "stalls"}

\* a read that has a deadline: it returns whatever the server does
ReadReturns_deadline(p) == TRUE

\* conn.Read and reader.Read are called on a connection without a deadline:
\* they return when bytes or an error arrive
ReadReturns(p) == p # "silent"

\* tlsConn.Handshake() is called without a deadline or context: it returns
\* when the server carries the handshake on or breaks it off
HandshakeReturns(p) == p = "responsive"

\* accepted acknowledgement that takes any byte
AckAccepted_any(b) == TRUE

\* response[0] != 'S' rejects
AckAccepted(b) == b = AckSSL

\* a length check that also rejects exactly 10 bytes
LengthAccepted_strict(k) == k > MinLDAPResponse

\* n < 10 rejects
LengthAccepted(k) == ~(k < MinLDAPResponse)

\* tls.DialWithDialer(dialer, "tcp", address, config) and what follows it in
\* testTLSHandshake, testTLSHandshakeInsecure and testTLSHandshakeWithSNI:
\* the library dials, runs the handshake on the new connection, closes it
\* if the handshake fails and returns it otherwise
DirectProbe(cfg, res) ==
    /\ config' = cfg
    /\ dialed' = Append(dialed, Address)
    /\ \/ \E e \in DialErrs :
            /\ steps' = Append(steps, Step("dial", 0))
            /\ Return([res EXCEPT
                        !.err = Errorf("TLS handshake failed: %w", <<>>, e)])
            /\ UNCHANGED <<nextFd, open, conn, tlsConn>>
       \/ \E e \in HandshakeErrs(cfg.InsecureSkipVerify) :
            /\ steps' = steps \o <<Step("dial", nextFd),
                                   Step("handshake", nextFd),
                                   Step("close", nextFd)>>
            /\ nextFd' = nextFd + 1
            /\ Return([res EXCEPT
                        !.err = Errorf("TLS handshake failed: %w", <<>>, e)])
            /\ UNCHANGED <<open, conn, tlsConn>>
       \/ \E state \in ConnectionStates :
            /\ steps' = steps \o <<Step("dial", nextFd),
                                   Step("handshake", nextFd),
                                   Step("close", nextFd)>>
            /\ nextFd' = nextFd + 1
            /\ conn' = nextFd
            /\ tlsConn' = nextFd
            /\ open' = DeferredClose(open \cup {nextFd}, nextFd)
            /\ Return(Extract(res, state))
    /\ UNCHANGED <<flagVars, exitCode, stderr, stdout, tcpErr, wire, inbound,
                   response, nRead, bufd, hsInput, peer, nameVars, sysVars>>

testTLSHandshake ==
    /\ pc = "testTLSHandshake"
    /\ DirectProbe(TLSConfig(host, FALSE), NewResult(host))

testTLSHandshakeInsecure ==
    /\ pc = "testTLSHandshakeInsecure"
    /\ DirectProbe(TLSConfig(host, TRUE), NewResult(host))

testTLSHandshakeWithSNI ==
    /\ pc = "testTLSHandshakeWithSNI"
    /\ DirectProbe(TLSConfig(sni, FALSE), NewResult(sni))

\* dialer.Dial("tcp", address) of a STARTTLS probe, and the return on error
Dial(failure, next) ==
    /\ dialed' = Append(dialed, Address)
    /\ \/ \E e \in DialErrs :
            /\ steps' = Append(steps, Step("dial", 0))
            /\ Return([NewResult(host) EXCEPT
                        !.err = Errorf(failure, <<>>, e)])
            /\ UNCHANGED <<nextFd, open, conn, peer>>
       \/ /\ steps' = Append(steps, Step("dial", nextFd))
          /\ conn' = nextFd
          /\ nextFd' = nextFd + 1
          /\ open' = open \cup {nextFd}
          /\ peer' \in Peers
          /\ result' = NewResult(host)
          /\ pc' = next
    /\ UNCHANGED <<flagVars, exitCode, stderr, stdout, tcpErr, config, tlsConn,
                   wire, inbound, response, nRead, bufd, hsInput, nameVars, sysVars>>

\* conn.Write(frame), and the return on error; a failed write may have put
\* a proper prefix of the frame on the wire
Write(frame, failure, next) ==
    /\ \/ \E e \in WriteErrs, k \in 0..(Len(frame) - 1) :
            /\ wire' = wire \o Take(frame, k)
            /\ steps' = steps \o <<Step("write", conn), Step("close", conn)>>
            /\ open' = DeferredClose(open, conn)
            /\ Return([result EXCEPT !.err = Errorf(failure, <<>>, e)])
       \/ /\ wire' = wire \o frame
          /\ steps' = Append(steps, Step("write", conn))
          /\ pc' = next
          /\ UNCHANGED <<open, result>>
    /\ UNCHANGED <<flagVars, exitCode, stderr, stdout, tcpErr, config, nextFd,
                   conn, tlsConn, dialed, inbound, response, nRead, bufd,
                   hsInput, peer, nameVars, sysVars>>

\* tlsConn := tls.Client(conn, tlsConfig); tlsConn.Handshake() and the rest
\* of a STARTTLS probe.  The TLS layer reads from conn: what the server
\* sent and the probe did not take off conn is the first thing it reads
Handshake ==
    /\ HandshakeReturns(peer)
    /\ config' = TLSConfig(host, FALSE)
    /\ tlsConn' = conn
    /\ hsInput' = inbound
    /\ inbound' = <<>>
    /\ steps' = steps \o <<Step("handshake", conn), Step("close", conn)>>
    /\ open' = DeferredClose(open, conn)
    /\ \/ \E e \in HandshakeErrs(FALSE) :
            Return([result EXCEPT
                        !.err = Errorf("TLS handshake failed: %w", <<>>, e)])
       \/ \E state \in ConnectionStates :
            Return(Extract(result, state))
    /\ UNCHANGED <<flagVars, exitCode, stderr, stdout, tcpErr, nextFd, conn,
                   dialed, wire, response, nRead, bufd, peer, nameVars, sysVars>>

testPostgresSTARTTLS_Dial ==
    /\ pc = "testPostgresSTARTTLS"
    /\ Dial("failed to connect to postgres: %w", "postgres:write")

testPostgresSTARTTLS_Write ==
    /\ pc = "postgres:write"
    /\ Write(sslRequest, "failed to send SSL request: %w", "postgres:read")

\* response := make([]byte, 1); conn.Read(response); the check of response[0]
testPostgresSTARTTLS_Read ==
    /\ pc = "postgres:read"
    /\ ReadReturns(peer)
    /\ \/ \E e \in ReadErrs :
            /\ steps' = steps \o <<Step("read", conn), Step("close", conn)>>
            /\ open' = DeferredClose(open, conn)
            /\ Return([result EXCEPT
                 !.err = Errorf("failed to read SSL response: %w", <<>>, e)])
            /\ UNCHANGED <<inbound, response, nRead>>
       \/ \E s \in PgStreams :
            /\ response' = Take(s, 1)
            /\ nRead' = 1
            /\ inbound' = Drop(s, 1)
            /\ IF ~AckAccepted(s[1])
               THEN /\ steps' = steps \o <<Step("read", conn),
                                           Step("close", conn)>>
                    /\ open' = DeferredClose(open, conn)
                    /\ Return([result EXCEPT !.err =
                         Errorf("server does not support SSL (response: %c)",
                                SprintfC(s[1]), "")])
               ELSE /\ steps' = Append(steps, Step("read", conn))
                    /\ pc' = "postgres:handshake"
                    /\ UNCHANGED <<open, result>>
    /\ UNCHANGED <<flagVars, exitCode, stderr, stdout, tcpErr, config, nextFd,
                   conn, tlsConn, dialed, wire, bufd, hsInput, peer, nameVars, sysVars>>

testPostgresSTARTTLS_Handshake ==
    /\ pc = "postgres:handshake"
    /\ Handshake

testLDAPSTARTTLS_Dial ==
    /\ pc = "testLDAPSTARTTLS"
    /\ Dial("failed to connect to LDAP: %w", "ldap:write")

testLDAPSTARTTLS_Write ==
    /\ pc = "ldap:write"
    /\ Write(startTLSRequest, "failed to send STARTTLS request: %w",
             "ldap:read")

\* reader := bufio.NewReader(conn); response := make([]byte, 1024);
\* n, err := reader.Read(response); the check of n.  The reader's buffer is
\* empty and larger than response, so it takes one read of up to BufioSize
\* bytes off conn and copies up to len(response) of them
testLDAPSTARTTLS_Read ==
    /\ pc = "ldap:read"
    /\ ReadReturns(peer)
    /\ \/ \E e \in ReadErrs :
            /\ steps' = steps \o <<Step("read", conn), Step("close", conn)>>
            /\ open' = DeferredClose(open, conn)
            /\ Return([result EXCEPT !.err =
                 Errorf("failed to read STARTTLS response: %w", <<>>, e)])
            /\ UNCHANGED <<inbound, response, nRead, bufd>>
       \/ \E s \in LDAPStreams :
            LET taken == Take(s, BufioSize)
                k == Min(Len(taken), ResponseBufSize)
            IN  /\ response' = Take(taken, k)
                /\ nRead' = k
                /\ bufd' = Drop(taken, k)
                /\ inbound' = Drop(s, BufioSize)
                /\ IF ~LengthAccepted(k)
                   THEN /\ steps' = steps \o <<Step("read", conn),
                                               Step("close", conn)>>
                        /\ open' = DeferredClose(open, conn)
                        /\ Return([result EXCEPT !.err =
                             Errorf("invalid STARTTLS response length: %d",
                                    SprintfD(k), "")])
                   ELSE /\ steps' = Append(steps, Step("read", conn))
                        /\ pc' = "ldap:handshake"
                        /\ UNCHANGED <<open, result>>
    /\ UNCHANGED <<flagVars, exitCode, stderr, stdout, tcpErr, config, nextFd,
                   conn, tlsConn, dialed, wire, hsInput, peer, nameVars, sysVars>>

testLDAPSTARTTLS_Handshake ==
    /\ pc = "ldap:handshake"
    /\ Handshake

(***************************************************************************)
(* The program.                                                            *)
(***************************************************************************)
Next ==
    \/ main_RequireHost
    \/ main_Switch
    \/ main_Local
    \/ testTCPConnection
    \/ main_printTCPResult
    \/ testTLSHandshake
    \/ testTLSHandshakeInsecure
    \/ testTLSHandshakeWithSNI
    \/ testPostgresSTARTTLS_Dial
    \/ testPostgresSTARTTLS_Write
    \/ testPostgresSTARTTLS_Read
    \/ testPostgresSTARTTLS_Handshake
    \/ testLDAPSTARTTLS_Dial
    \/ testLDAPSTARTTLS_Write
    \/ testLDAPSTARTTLS_Read
    \/ testLDAPSTARTTLS_Handshake
    \/ main_printTLSResult

Spec == Init /\ [][Next]_vars

(***************************************************************************)
(* The name lookups on their own: every 16-bit code is looked up by        *)
(* tlsVersionString and by cipherSuiteString.                              *)
(***************************************************************************)
InitNames ==
    /\ host = ""
    /\ port = DefaultPort
    /\ timeout = DefaultTimeout
    /\ mode = mode_tcp
    /\ sni = ""
    /\ pc = "lookup"
    /\ Idle
    /\ arg \in 0..UInt16Max
    /\ fn = ""
    /\ str = ""
    /\ IdleSys

Call_tlsVersionString ==
    /\ pc = "lookup"
    /\ fn = ""
    /\ fn' = "tlsVersionString"
    /\ str' = tlsVersionString(arg)
    /\ UNCHANGED <<flagVars, pc, exitCode, stderr, stdout, result, tcpErr,
                   config, netVars, arg, sysVars>>

Call_cipherSuiteString ==
    /\ pc = "lookup"
    /\ fn = ""
    /\ fn' = "cipherSuiteString"
    /\ str' = cipherSuiteString(arg)
    /\ UNCHANGED <<flagVars, pc, exitCode, stderr, stdout, result, tcpErr,
                   config, netVars, arg, sysVars>>

NextNames ==
    \/ Call_tlsVersionString
    \/ Call_cipherSuiteString

SpecNames == InitNames /\ [][NextNames]_vars

(***************************************************************************)
(* Vocabulary of the properties.                                           *)
(***************************************************************************)
Variant == ToLower(mode)
Returned == pc = "printTLSResult"
Ended == pc \in {"printTLSResult", "exit"}
Ops == [i \in DOMAIN steps |-> steps[i].op]
StepsOf(op) == {i \in DOMAIN steps : steps[i].op = op}
HandshakeTaken == StepsOf("handshake") # {}
IsPrefix(s, t) == Len(s) <= Len(t) /\ SubSeq(t, 1, Len(s)) = s
Range(s) == {s[i] : i \in DOMAIN s}
StartTLSVariants == {mode_tls_postgres, mode_tls_ldap}
TLSVariants ==
    {mode_tls, mode_tls_insecure, mode_tls_sni, mode_tls_postgres,
     mode_tls_ldap}

\* the read of the acknowledgement succeeded
AckRead == nRead > 0

(***************************************************************************)
(* C1: in testPostgresSTARTTLS, for every acknowledgement byte other than  *)
(* 'S' the probe returns a failed result whose cause contains the received *)
(* byte, and no TLS handshake step is taken.  The text of the cause around *)
(* the formatted byte is ASCII, so a byte of 0x80 and above is in the      *)
(* cause only if it is among the bytes the %c verb produced.               *)
(***************************************************************************)
C1_RejectedAckReportsByte ==
    (Variant = mode_tls_postgres /\ AckRead /\ response[1] # 83) =>
        /\ Ended
        /\ ~result.success
        /\ ~result.err.nil
        /\ response[1] \in Range(result.err.arg)
        /\ ~HandshakeTaken
        /\ tlsConn = 0

(***************************************************************************)
(* C2: in both STARTTLS probes the steps come only in the order dial,      *)
(* write, read, handshake; a handshake is started only after a successful  *)
(* dial, a complete write of the upgrade frame and an accepted             *)
(* acknowledgement ('S' for PostgreSQL, at least 10 bytes for LDAP); it    *)
(* runs on the connection that was dialed; one dial is made per run.       *)
(***************************************************************************)
StartTLSOrder == <<"dial", "write", "read", "handshake">>
IOOps == SelectSeq(Ops, LAMBDA op : op # "close")

C2_StartTLSStepOrder ==
    (Variant \in StartTLSVariants) =>
        /\ IsPrefix(IOOps, StartTLSOrder)
        /\ Len(dialed) <= 1
        /\ Returned => Len(dialed) = 1
        /\ Cardinality(StepsOf("dial")) = Len(dialed)
        /\ HandshakeTaken =>
            /\ steps[1].op = "dial" /\ steps[1].fd # 0
            /\ \A i \in DOMAIN steps : steps[i].fd = steps[1].fd
            /\ tlsConn = conn /\ conn = steps[1].fd
            /\ Len(wire) = (IF Variant = mode_tls_postgres THEN 8 ELSE 31)
            /\ wire = (IF Variant = mode_tls_postgres THEN sslRequest
                       ELSE startTLSRequest)
            /\ AckRead
            /\ Variant = mode_tls_postgres => response = <<83>>
            /\ Variant = mode_tls_ldap => nRead >= 10

C2_Witness ==
    /\ Variant = mode_tls_postgres
    /\ Returned
    /\ Ops = <<"dial", "write", "read", "handshake", "close">>
    /\ result.success

(***************************************************************************)
(* C3: whatever the host, port and timeout, the PostgreSQL probe writes    *)
(* exactly 00 00 00 08 04 D2 16 2F before it reads, the LDAP probe exactly *)
(* 30 1D 02 01 01 77 18 80 16 and the 22 ASCII bytes of                    *)
(* 1.3.6.1.4.1.1466.20037 (31 bytes), and nothing else is written in       *)
(* plaintext.                                                              *)
(***************************************************************************)
AsciiOf(c) ==
    CASE c = "." -> 46
      [] c = "0" -> 48 [] c = "1" -> 49 [] c = "2" -> 50 [] c = "3" -> 51
      [] c = "4" -> 52 [] c = "5" -> 53 [] c = "6" -> 54 [] c = "7" -> 55
      [] c = "8" -> 56 [] c = "9" -> 57
StartTLSOID ==
    <<"1", ".", "3", ".", "6", ".", "1", ".", "4", ".", "1", ".",
      "1", "4", "6", "6", ".", "2", "0", "0", "3", "7">>
ExpectedPostgresFrame == <<0, 0, 0, 8, 4, 210, 22, 47>>
ExpectedLDAPFrame ==
    <<48, 29, 2, 1, 1, 119, 24, 128, 22>>
        \o [i \in DOMAIN StartTLSOID |-> AsciiOf(StartTLSOID[i])]
ExpectedFrame ==
    IF Variant = mode_tls_postgres THEN ExpectedPostgresFrame
    ELSE ExpectedLDAPFrame

C3_UpgradeFramesExact ==
    /\ Len(ExpectedPostgresFrame) = 8
    /\ Len(StartTLSOID) = 22
    /\ Len(ExpectedLDAPFrame) = 31
    /\ (Variant \in StartTLSVariants) =>
        /\ IsPrefix(wire, ExpectedFrame)
        /\ (StepsOf("read") # {} \/ pc \in {"postgres:read", "ldap:read"})
                => wire = ExpectedFrame
    /\ (Variant \notin StartTLSVariants) => wire = <<>>

C3_Witness ==
    /\ pc = "ldap:read"
    /\ wire = ExpectedLDAPFrame
    /\ host = "ldap.internal"
    /\ port # DefaultPort
    /\ timeout # DefaultTimeout

(***************************************************************************)
(* C4: in testLDAPSTARTTLS, after a successful read of n bytes: with       *)
(* n >= 10 the probe goes on to the TLS handshake whatever the bytes are,  *)
(* with n < 10 it returns a failed result and takes no handshake step.     *)
(***************************************************************************)
C4_LDAPLengthOnly ==
    (Variant = mode_tls_ldap /\ AckRead) =>
        IF nRead >= 10
        THEN pc = "ldap:handshake" \/ HandshakeTaken
        ELSE Ended /\ ~result.success /\ ~result.err.nil /\ ~HandshakeTaken

\* exactly 10 bytes, none of them LDAP, and the handshake was attempted
C4_Witness ==
    /\ Variant = mode_tls_ldap
    /\ nRead = 10
    /\ response = [i \in 1..10 |-> 255]
    /\ HandshakeTaken

(***************************************************************************)
(* C5: for the five TLS probe variants and every exit path, no connection  *)
(* the probe opened is still open when the probe has returned.             *)
(***************************************************************************)
C5_NoConnectionLeftOpen ==
    (Variant \in TLSVariants /\ Ended) => open = {}

\* a STARTTLS probe that opened a connection and failed before the handshake
C5_Witness ==
    /\ Variant = mode_tls_ldap
    /\ Returned
    /\ conn # 0
    /\ ~result.success
    /\ ~HandshakeTaken
    /\ open = {}

(***************************************************************************)
(* C6: every probe variant returns a result in which success holds exactly *)
(* when the cause is absent (err == nil); success is returned only after a *)
(* TLS handshake that completed without error; a dial failure gives        *)
(* success=false with a non-empty cause; no step is taken twice in a run.  *)
(***************************************************************************)
DialFailed == \E i \in StepsOf("dial") : steps[i].fd = 0

C7_FailedResultAllZero ==
    (Variant \in TLSVariants /\ Returned /\ ~result.success) =>
        /\ result.version = 0
        /\ result.cipherSuite = 0
        /\ result.peerCertificates = 0
        /\ result.serverName = ""

(***************************************************************************)
(* C7, amended: in every failed result the handshake-derived fields        *)
(* (version, cipher suite, peer certificate count) hold their zero values  *)
(* beside the failure cause, and the server name holds the SNI value the   *)
(* result was constructed with (the override in tls-sni, else the host).   *)
(***************************************************************************)
ConfiguredName == IF Variant = mode_tls_sni THEN sni ELSE host

C7_FailedResultKeepsOnlyServerName ==
    (Variant \in TLSVariants /\ Returned /\ ~result.success) =>
        /\ ~result.err.nil
        /\ result.version = 0
        /\ result.cipherSuite = 0
        /\ result.peerCertificates = 0
        /\ result.serverName = ConfiguredName
        /\ result.serverName # ""

\* a handshake failure of the SNI variant: the result carries the override
C7_Witness ==
    /\ Variant = mode_tls_sni
    /\ Returned
    /\ ~result.success
    /\ HandshakeTaken
    /\ result.serverName = "alt.example"

(***************************************************************************)
(* C8: the serverName of a successful result equals the ServerName of the  *)
(* tls.Config the handshake ran with: the override for                     *)
(* testTLSHandshakeWithSNI, also when it differs from the host, and the    *)
(* dial host for the other four variants.                                  *)
(***************************************************************************)
C8_ServerNameIsConfiguredSNI ==
    (Variant \in TLSVariants /\ Returned /\ result.success) =>
        /\ result.serverName = config.ServerName
        /\ Variant = mode_tls_sni => result.serverName = sni
        /\ Variant # mode_tls_sni => result.serverName = host
        /\ dialed[1].host = host

C8_Witness ==
    /\ Variant = mode_tls_sni
    /\ Returned
    /\ result.success
    /\ sni # host
    /\ result.serverName = sni
    /\ config.ServerName = sni

(***************************************************************************)
(* The names the properties expect.                                        *)
(***************************************************************************)
lowerHex == <<"0", "1", "2", "3", "4", "5", "6", "7",
              "8", "9", "a", "b", "c", "d", "e", "f">>
HexDigitAt(code, place) == lowerHex[((code \div place) % 16) + 1]
ExpectedUnknown(code) ==
    "Unknown (0x" \o HexDigitAt(code, 4096) \o HexDigitAt(code, 256)
        \o HexDigitAt(code, 16) \o HexDigitAt(code, 1) \o ")"

\* the registered names, from key exchange, cipher and hash
Suite12(kx, cipher, hash) == "TLS_" \o kx \o "_WITH_" \o cipher \o "_" \o hash
Suite13(cipher, hash) == "TLS_" \o cipher \o "_" \o hash
RegisteredSuites ==
    <<<<4, Suite12("RSA", "RC4_128", "MD5")>>,
      <<5, Suite12("RSA", "RC4_128", "SHA")>>,
      <<10, Suite12("RSA", "3DES_EDE_CBC", "SHA")>>,
      <<47, Suite12("RSA", "AES_128_CBC", "SHA")>>,
      <<53, Suite12("RSA", "AES_256_CBC", "SHA")>>,
      <<60, Suite12("RSA", "AES_128_CBC", "SHA256")>>,
      <<61, Suite12("RSA", "AES_256_CBC", "SHA256")>>,
      <<156, Suite12("RSA", "AES_128_GCM", "SHA256")>>,
      <<157, Suite12("RSA", "AES_256_GCM", "SHA384")>>,
      <<49159, Suite12("ECDHE_ECDSA", "RC4_128", "SHA")>>,
      <<49161, Suite12("ECDHE_ECDSA", "AES_128_CBC", "SHA")>>,
      <<49162, Suite12("ECDHE_ECDSA", "AES_256_CBC", "SHA")>>,
      <<49169, Suite12("ECDHE_RSA", "RC4_128", "SHA")>>,
      <<49171, Suite12("ECDHE_RSA", "AES_128_CBC", "SHA")>>,
      <<49172, Suite12("ECDHE_RSA", "AES_256_CBC", "SHA")>>,
      <<49187, Suite12("ECDHE_ECDSA", "AES_128_CBC", "SHA256")>>,
      <<49188, Suite12("ECDHE_ECDSA", "AES_256_CBC", "SHA384")>>,
      <<49191, Suite12("ECDHE_RSA", "AES_128_CBC", "SHA256")>>,
      <<49192, Suite12("ECDHE_RSA", "AES_256_CBC", "SHA384")>>,
      <<49195, Suite12("ECDHE_ECDSA", "AES_128_GCM", "SHA256")>>,
      <<49196, Suite12("ECDHE_ECDSA", "AES_256_GCM", "SHA384")>>,
      <<49199, Suite12("ECDHE_RSA", "AES_128_GCM", "SHA256")>>,
      <<49200, Suite12("ECDHE_RSA", "AES_256_GCM", "SHA384")>>,
      <<4865, Suite13("AES_128_GCM", "SHA256")>>,
      <<4866, Suite13("AES_256_GCM", "SHA384")>>,
      <<4867, Suite13("CHACHA20_POLY1305", "SHA256")>>>>
RegisteredCodes == {RegisteredSuites[i][1] : i \in DOMAIN RegisteredSuites}
RegisteredName(code) ==
    RegisteredSuites[CHOOSE i \in DOMAIN RegisteredSuites :
                        RegisteredSuites[i][1] = code][2]

CipherLookupCorrect ==
    fn = "cipherSuiteString" =>
        /\ str # ""
        /\ Len(str) > 0
        /\ arg \in RegisteredCodes => str = RegisteredName(arg)
        /\ arg \notin RegisteredCodes =>
            /\ str = ExpectedUnknown(arg)
            /\ Len(str) = 16

(***************************************************************************)
(* C9, as claimed: the cipher-suite table has exactly 27 known codes;      *)
(* cipherSuiteString returns the registered name for each of them and      *)
(* "Unknown (0xNNNN)", four lowercase hex digits, for every other code,    *)
(* and never the empty string.                                             *)
(***************************************************************************)
C9_Table27 ==
    /\ Cardinality(DOMAIN suites) = 27
    /\ CipherLookupCorrect

(***************************************************************************)
(* C9, amended: the cipher-suite table has exactly 26 known codes;         *)
(* cipherSuiteString returns the registered name for each of the 26 and    *)
(* "Unknown (0xNNNN)", four zero-padded lowercase hex digits, for every    *)
(* other 16-bit code, and never the empty string.                          *)
(***************************************************************************)
C9_Table26 ==
    /\ Cardinality(DOMAIN suites) = 26
    /\ DOMAIN suites = RegisteredCodes
    /\ Cardinality(RegisteredCodes) = Len(RegisteredSuites)
    /\ CipherLookupCorrect

\* a code outside the table whose hex needs two padding zeros
C9_Witness ==
    /\ fn = "cipherSuiteString"
    /\ arg = 255
    /\ str = "Unknown (0x00ff)"

(***************************************************************************)
(* C10: tlsVersionString is total over the 16-bit codes and never returns  *)
(* the empty string: 0x0300..0x0304 give "SSL 3.0", "TLS 1.0", "TLS 1.1",  *)
(* "TLS 1.2", "TLS 1.3", every other code "Unknown (0xNNNN)" with four     *)
(* zero-padded lowercase hex digits.                                       *)
(***************************************************************************)
KnownVersions ==
    <<<<768, "SSL 3.0">>, <<769, "TLS 1.0">>, <<770, "TLS 1.1">>,
      <<771, "TLS 1.2">>, <<772, "TLS 1.3">>>>

C10_VersionNames ==
    fn = "tlsVersionString" =>
        /\ str # ""
        /\ Len(str) > 0
        /\ \A i \in DOMAIN KnownVersions :
              arg = KnownVersions[i][1] => str = KnownVersions[i][2]
        /\ (\A i \in DOMAIN KnownVersions : arg # KnownVersions[i][1])
              => str = ExpectedUnknown(arg) /\ Len(str) = 16

C10_Witness ==
    /\ fn = "tlsVersionString"
    /\ arg = 768
    /\ str = "SSL 3.0"


(***************************************************************************)
(* C11: in every probe variant the cause of a failure names the stage that *)
(* failed: a dial failure is reported as a failure to connect and wraps    *)
(* the dial error, a failure of the upgrade exchange (write of the frame,  *)
(* read of the acknowledgement, rejected acknowledgement) as an upgrade    *)
(* failure, and only a failure of the TLS handshake itself as              *)
(* "TLS handshake failed".                                                 *)
(***************************************************************************)
ConnectCauses ==
    {"failed to connect to postgres: %w", "failed to connect to LDAP: %w"}
UpgradeCauses ==
    {"failed to send SSL request: %w", "failed to read SSL response: %w",
     "server does not support SSL (response: %c)",
     "failed to send STARTTLS request: %w",
     "failed to read STARTTLS response: %w",
     "invalid STARTTLS response length: %d"}
HandshakeCause == "TLS handshake failed: %w"
LastOp == IOOps[Len(IOOps)]

C11_CauseNamesStage ==
    (Variant \in TLSVariants /\ Returned /\ ~result.success) =>
        /\ ~result.err.nil
        /\ DialFailed =>
            /\ result.err.msg \in ConnectCauses
            /\ result.err.wrapped \in DialErrs
        /\ (~DialFailed /\ LastOp \in {"write", "read"}) =>
            result.err.msg \in UpgradeCauses
        /\ (~DialFailed /\ LastOp = "handshake") =>
            result.err.msg = HandshakeCause
        /\ result.err.msg = HandshakeCause =>
            (HandshakeTaken /\ result.err.wrapped \in HandshakeErrs(FALSE))

(***************************************************************************)
(* C12: for each of the modes tls, tls-insecure, tls-sni, tls-postgres and *)
(* tls-ldap, main prints the result of the probe and then the process ends *)
(* with non-zero status if and only if success=false, with status 0 if     *)
(* success=true.                                                           *)
(***************************************************************************)
ProbeRan == dialed # <<>>

C12_ExitStatusFollowsSuccess ==
    (Variant \in TLSVariants /\ ProbeRan /\ pc = "exit") =>
        /\ exitCode \in {0, 1}
        /\ exitCode # 0 <=> ~result.success
        /\ result.success => exitCode = 0
        /\ stdout = printTLSResult(result)
        /\ Len(stdout) = (IF result.success THEN 5 ELSE 1)

C12_Witness ==
    /\ Variant = mode_tls_postgres
    /\ pc = "exit"
    /\ result.success
    /\ exitCode = 0
    /\ Len(stdout) = 5

(***************************************************************************)
(* C13: in mode tls-sni an empty -sni is rejected by main: the process     *)
(* exits with non-zero status before testTLSHandshakeWithSNI is called, so *)
(* no connection is dialed with an empty SNI override.                     *)
(***************************************************************************)
C13_EmptySNIRejected ==
    (Variant = mode_tls_sni /\ sni = "") =>
        /\ pc \in {"main", "switch", "exit"}
        /\ dialed = <<>>
        /\ steps = <<>>
        /\ config = NoConfig
        /\ pc = "exit" => exitCode = 1

C13_Witness ==
    /\ Variant = mode_tls_sni
    /\ sni = ""
    /\ host # ""
    /\ pc = "exit"
    /\ exitCode = 1
    /\ stderr = <<"Error: SNI is required for tls-sni mode">>
    /\ dialed = <<>>


(***************************************************************************)
(* C15: the upgrade step of a STARTTLS probe takes off the connection only *)
(* the bytes it reads as the acknowledgement (exactly 1 for PostgreSQL, at *)
(* most 1024 for LDAP); every byte the server sent beyond those is still   *)
(* on the connection for the TLS handshake, none is consumed and withheld. *)
(***************************************************************************)
C15_NoByteWithheld ==
    (Variant \in StartTLSVariants /\ AckRead) =>
        /\ Len(response) = nRead
        /\ Variant = mode_tls_postgres => nRead = 1
        /\ Variant = mode_tls_ldap => nRead <= 1024
        /\ bufd = <<>>

(***************************************************************************)
(* C18: whenever -mode selects a local diagnostic (ulimits, mm-env or      *)
(* sysctl, matched case-insensitively by the dispatch in main), an empty   *)
(* -host never causes the "host is required" error exit.                   *)
(***************************************************************************)
LocalModes == {mode_ulimits, mode_mm_env, mode_sysctl}

C18_LocalModesNeedNoHost ==
    (Variant \in LocalModes /\ host = "") =>
        \A i \in DOMAIN stderr : stderr[i] # "Error: host is required"


(***************************************************************************)
(* The program with its scheduling: main is one goroutine, and a step that *)
(* can be taken is taken.  A read or a handshake waiting on a server that  *)
(* sends nothing is not a step that can be taken.                          *)
(***************************************************************************)
SpecLive == Init /\ [][Next]_vars /\ WF_vars(Next)

(***************************************************************************)
(* C14: the timeout bounds only the dial of the STARTTLS probes.  After    *)
(* the connection is made, the read of the acknowledgement and the TLS     *)
(* handshake carry no deadline: once the probe waits on a server that      *)
(* never answers, it takes no further step and reaches no terminal state.  *)
(* In every run the probe either ends (with success or failure) or is such *)
(* a wait: it terminates whenever every I/O step completes or errors.      *)
(***************************************************************************)
Blocked ==
    /\ Variant \in StartTLSVariants
    /\ \/ pc \in {"postgres:read", "ldap:read"} /\ peer = "silent"
       \/ pc \in {"postgres:handshake", "ldap:handshake"}
            /\ peer # "responsive"

C14_NoDeadlineAfterDial ==
    /\ [][~Blocked]_vars
    /\ [](Blocked => (conn \in open /\ exitCode = -1))
    /\ <>(pc = "exit" \/ Blocked)

\* the frame is written and the server stays silent
C14_Witness ==
    /\ pc = "postgres:read"
    /\ peer = "silent"
    /\ wire = sslRequest
    /\ conn \in open


(***************************************************************************)
(* readSysctl and findMattermostProcess: the caller makes a channel of     *)
(* capacity 1, starts a goroutine that sends one value on it, and selects  *)
(* on the channel and on ctx.Done().  The context is the caller's: it may  *)
(* have expired before the call and may expire at any moment.              *)
(***************************************************************************)
\* make(chan struct{...}, 1)
ChanCap == 1

SysctlNames == {"", "net.core.somaxconn"}
SysctlStringValues == {"4096", "bbr"}
SysctlIntValues == {"30", "4096 156250 625000"}
Procs == {"pid 1", "pid 4242"}
TimeoutOutcomes ==
    {Outcome("", "timeout reading %s"),
     Outcome("", "timeout finding mattermost process")}

InitWorker ==
    /\ host = ""
    /\ port = DefaultPort
    /\ timeout = DefaultTimeout
    /\ mode \in {mode_sysctl, mode_mm_env}
    /\ sni = ""
    /\ pc = "local"
    /\ Idle
    /\ arg = 0
    /\ fn = ""
    /\ str = ""
    /\ call = (IF mode = mode_sysctl THEN "readSysctl"
               ELSE "findMattermostProcess")
    /\ param \in (IF mode = mode_sysctl THEN SysctlNames ELSE {""})
    /\ cpc = "call"
    /\ wpc = "none"
    /\ done = <<>>
    /\ ctxDone \in BOOLEAN
    /\ pending = NoOutcome
    /\ outcomes = <<>>
    /\ IdleCmp

probeVars ==
    <<flagVars, pc, exitCode, stderr, stdout, result, tcpErr, config, netVars,
      nameVars, cmpVars>>

\* a send that needs the caller to wait in its select, as on a channel
\* without a buffer
CanSend_unbuffered == cpc = "select" /\ Len(done) < ChanCap

\* the channel can take a value: there is room in its buffer
CanSend == Len(done) < ChanCap

\* done <- struct{...}{...}; return
Send ==
    /\ wpc = "send"
    /\ CanSend
    /\ wpc' = "done"
    /\ done' = Append(done, pending)
    /\ UNCHANGED <<probeVars, call, param, cpc, ctxDone, pending, outcomes>>

\* case result := <-done: return result.value, result.err
Receive ==
    /\ cpc = "select"
    /\ done # <<>>
    /\ outcomes' = Append(outcomes, Head(done))
    /\ done' = Tail(done)
    /\ cpc' = "returned"
    /\ UNCHANGED <<probeVars, call, param, wpc, ctxDone, pending>>

\* case <-ctx.Done(): return the timeout error
Expired(failure) ==
    /\ cpc = "select"
    /\ ctxDone
    /\ outcomes' = Append(outcomes, Outcome("", failure))
    /\ cpc' = "returned"
    /\ UNCHANGED <<probeVars, call, param, wpc, done, ctxDone, pending>>

\* the goroutine prepares v and goes to its send
Prepare(v) ==
    /\ pending' = v
    /\ wpc' = "send"

\* the deadline of context.WithTimeout passes
ctx_Expire ==
    /\ ~ctxDone
    /\ cpc # "returned"
    /\ ctxDone' = TRUE
    /\ UNCHANGED <<probeVars, call, param, cpc, wpc, done, pending, outcomes>>

\* readSysctl up to the select: the empty name returns at once, else the
\* channel is made and the goroutine started
readSysctl_Call ==
    /\ call = "readSysctl"
    /\ cpc = "call"
    /\ IF param = ""
       THEN /\ outcomes' = Append(outcomes,
                                  Outcome("", "empty parameter name"))
            /\ cpc' = "returned"
            /\ UNCHANGED wpc
       ELSE /\ cpc' = "select"
            /\ wpc' = "NewDefaultFS"
            /\ UNCHANGED outcomes
    /\ UNCHANGED <<probeVars, call, param, done, ctxDone, pending>>

readSysctl_NewDefaultFS ==
    /\ call = "readSysctl"
    /\ wpc = "NewDefaultFS"
    /\ \/ Prepare(Outcome("", "procfs access failed: %w"))
       \/ wpc' = "SysctlStrings" /\ UNCHANGED pending
    /\ UNCHANGED <<probeVars, call, param, cpc, done, ctxDone, outcomes>>

readSysctl_SysctlStrings ==
    /\ call = "readSysctl"
    /\ wpc = "SysctlStrings"
    /\ \/ \E v \in SysctlStringValues : Prepare(Outcome(v, ""))
       \/ wpc' = "SysctlInts" /\ UNCHANGED pending
    /\ UNCHANGED <<probeVars, call, param, cpc, done, ctxDone, outcomes>>

readSysctl_SysctlInts ==
    /\ call = "readSysctl"
    /\ wpc = "SysctlInts"
    /\ \/ \E v \in SysctlIntValues : Prepare(Outcome(v, ""))
       \/ Prepare(Outcome("", "parameter not found"))
    /\ UNCHANGED <<probeVars, call, param, cpc, done, ctxDone, outcomes>>

readSysctl_Send == call = "readSysctl" /\ Send
readSysctl_Receive == call = "readSysctl" /\ Receive
readSysctl_Timeout == call = "readSysctl" /\ Expired("timeout reading %s")

\* findMattermostProcess up to the select
findMattermostProcess_Call ==
    /\ call = "findMattermostProcess"
    /\ cpc = "call"
    /\ cpc' = "select"
    /\ wpc' = "NewFS"
    /\ UNCHANGED <<probeVars, call, param, done, ctxDone, pending, outcomes>>

findMattermostProcess_NewFS ==
    /\ call = "findMattermostProcess"
    /\ wpc = "NewFS"
    /\ \/ Prepare(Outcome("", "procfs access failed: %w"))
       \/ wpc' = "AllProcs" /\ UNCHANGED pending
    /\ UNCHANGED <<probeVars, call, param, cpc, done, ctxDone, outcomes>>

findMattermostProcess_AllProcs ==
    /\ call = "findMattermostProcess"
    /\ wpc = "AllProcs"
    /\ \/ Prepare(Outcome("", "failed to get process list: %w"))
       \/ wpc' = "scan" /\ UNCHANGED pending
    /\ UNCHANGED <<probeVars, call, param, cpc, done, ctxDone, outcomes>>

\* the loop over procs
findMattermostProcess_Scan ==
    /\ call = "findMattermostProcess"
    /\ wpc = "scan"
    /\ \/ \E p \in Procs : Prepare(Outcome(p, ""))
       \/ Prepare(Outcome("", "mattermost process not found"))
    /\ UNCHANGED <<probeVars, call, param, cpc, done, ctxDone, outcomes>>

findMattermostProcess_Send == call = "findMattermostProcess" /\ Send
findMattermostProcess_Receive == call = "findMattermostProcess" /\ Receive
findMattermostProcess_Timeout ==
    call = "findMattermostProcess"
        /\ Expired("timeout finding mattermost process")

Caller ==
    \/ readSysctl_Call
    \/ readSysctl_Receive
    \/ readSysctl_Timeout
    \/ findMattermostProcess_Call
    \/ findMattermostProcess_Receive
    \/ findMattermostProcess_Timeout

Worker ==
    \/ readSysctl_NewDefaultFS
    \/ readSysctl_SysctlStrings
    \/ readSysctl_SysctlInts
    \/ readSysctl_Send
    \/ findMattermostProcess_NewFS
    \/ findMattermostProcess_AllProcs
    \/ findMattermostProcess_Scan
    \/ findMattermostProcess_Send

NextWorker ==
    \/ readSysctl_Call
    \/ readSysctl_Receive
    \/ readSysctl_Timeout
    \/ findMattermostProcess_Call
    \/ findMattermostProcess_Receive
    \/ findMattermostProcess_Timeout
    \/ readSysctl_NewDefaultFS
    \/ readSysctl_SysctlStrings
    \/ readSysctl_SysctlInts
    \/ readSysctl_Send
    \/ findMattermostProcess_NewFS
    \/ findMattermostProcess_AllProcs
    \/ findMattermostProcess_Scan
    \/ findMattermostProcess_Send
    \/ ctx_Expire

\* the Go scheduler runs every goroutine that can run; the deadline of the
\* context is not bound to pass before the call is over
SpecWorker ==
    InitWorker /\ [][NextWorker]_vars /\ WF_vars(Caller) /\ WF_vars(Worker)

(***************************************************************************)
(* C16: in readSysctl and findMattermostProcess, for every interleaving of *)
(* the goroutine and the expiry of the context, the caller returns exactly *)
(* one outcome (the goroutine's value or a timeout error) and the          *)
(* goroutine runs to completion: its single send on the capacity-1 channel *)
(* never blocks, also when the caller has already returned on timeout.     *)
(***************************************************************************)
WorkerStarted == wpc # "none"

C16_OneOutcomeSendNeverBlocks ==
    /\ [](Len(outcomes) <= 1)
    /\ [](cpc = "returned" <=> Len(outcomes) = 1)
    /\ [](Len(outcomes) = 1 =>
            \/ outcomes[1] \in TimeoutOutcomes /\ ctxDone
            \/ WorkerStarted /\ outcomes[1] = pending
            \/ ~WorkerStarted /\ call = "readSysctl" /\ param = "")
    /\ [](wpc = "send" => Len(done) < ChanCap)
    /\ [](Len(done) <= ChanCap)
    /\ [](wpc = "done" => (done = <<pending>> \/ outcomes = <<pending>>))
    /\ <>(cpc = "returned")
    /\ WorkerStarted ~> (wpc = "done")
    /\ [](wpc = "done" => [](wpc = "done"))

\* the caller returned the timeout error, and the goroutine has sent its
\* value into the buffer and ended
C16_Witness ==
    /\ call = "readSysctl"
    /\ cpc = "returned"
    /\ outcomes[1] \in TimeoutOutcomes
    /\ wpc = "done"
    /\ done = <<pending>>


(***************************************************************************)
(* compareSysctl.  A sysctl value is a sequence of characters.             *)
(***************************************************************************)
Alphabet == {" ", "1", "2", "-", "a"}
Strings == UNION {[1..n -> Alphabet] : n \in 0..MaxStrLen}

\* unicode.IsSpace on the characters of a sysctl value
IsSpace(c) == c \in {" ", "\t", "\n", "\r"}

RECURSIVE TrimLeft(_)
TrimLeft(s) ==
    IF s # <<>> /\ IsSpace(Head(s)) THEN TrimLeft(Tail(s)) ELSE s

RECURSIVE TrimRight(_)
TrimRight(s) ==
    IF s # <<>> /\ IsSpace(s[Len(s)])
    THEN TrimRight(SubSeq(s, 1, Len(s) - 1))
    ELSE s

\* strings.TrimSpace
TrimSpace(s) == TrimRight(TrimLeft(s))

\* the first field of s, which starts on a non-space
RECURSIVE FirstField(_)
FirstField(s) ==
    IF s = <<>> \/ IsSpace(Head(s)) THEN <<>>
    ELSE <<Head(s)>> \o FirstField(Tail(s))

\* strings.Fields: the maximal runs of non-space characters
RECURSIVE Fields(_)
Fields(s) ==
    LET t == TrimLeft(s)
        f == FirstField(t)
    IN  IF t = <<>> THEN <<>>
        ELSE <<f>> \o Fields(Drop(t, Len(f)))

DecDigits == <<"0", "1", "2", "3", "4", "5", "6", "7", "8", "9">>
IsDigit(c) == \E i \in 1..Len(DecDigits) : DecDigits[i] = c
DigitVal(c) == (CHOOSE i \in 1..Len(DecDigits) : DecDigits[i] = c) - 1

RECURSIVE Decimal(_)
Decimal(s) ==
    IF s = <<>> THEN 0
    ELSE 10 * Decimal(SubSeq(s, 1, Len(s) - 1)) + DigitVal(s[Len(s)])

\* strconv.Atoi: an optional sign, then one digit or more.  Its range error
\* needs a value of 19 digits, which no value of MaxStrLen characters has.
Atoi(s) ==
    LET signed == s # <<>> /\ s[1] \in {"+", "-"}
        body == IF signed THEN Tail(s) ELSE s
    IN  IF body = <<>> \/ \E i \in 1..Len(body) : ~IsDigit(body[i])
        THEN [n |-> 0, err |-> TRUE]
        ELSE [n |-> IF signed /\ s[1] = "-" THEN 0 - Decimal(body)
                    ELSE Decimal(body),
              err |-> FALSE]

\* the loop of compareSysctl from field i on, with its early returns
RECURSIVE CompareFrom(_, _, _)
CompareFrom(expectedFields, actualFields, i) ==
    IF i > Len(expectedFields) THEN TRUE
    ELSE LET exp == Atoi(expectedFields[i])
             act == Atoi(actualFields[i])
         IN  IF exp.err \/ act.err THEN FALSE
             ELSE IF act.n < exp.n THEN FALSE
             ELSE CompareFrom(expectedFields, actualFields, i + 1)

\* a comparison of the trimmed strings and nothing more
compareSysctl_stringOnly(e, a) == TrimSpace(e) = TrimSpace(a)

compareSysctl(e, a) ==
    LET te == TrimSpace(e)
        ta == TrimSpace(a)
        expectedFields == Fields(te)
        actualFields == Fields(ta)
    IN  IF te = ta THEN TRUE
        ELSE IF Len(expectedFields) # Len(actualFields) THEN FALSE
        ELSE CompareFrom(expectedFields, actualFields, 1)

InitCompare ==
    /\ host = ""
    /\ port = DefaultPort
    /\ timeout = DefaultTimeout
    /\ mode = mode_sysctl
    /\ sni = ""
    /\ pc = "compare"
    /\ Idle
    /\ arg = 0
    /\ fn = ""
    /\ str = ""
    /\ IdleWork
    /\ expected \in Strings
    /\ actual \in Strings
    /\ matches = FALSE

\* matches: compareSysctl(config.Expected, actual)
GetSysctls_compareSysctl ==
    /\ pc = "compare"
    /\ matches' = compareSysctl(expected, actual)
    /\ pc' = "compared"
    /\ UNCHANGED <<flagVars, exitCode, stderr, stdout, result, tcpErr, config,
                   netVars, nameVars, workVars, expected, actual>>

NextCompare == GetSysctls_compareSysctl

SpecCompare == InitCompare /\ [][NextCompare]_vars

(***************************************************************************)
(* C17: compareSysctl(expected, actual) is true exactly when the trimmed   *)
(* strings are equal, or both have the same number of fields, every field  *)
(* on both sides parses as an integer and each actual field is at least    *)
(* the expected field at its position.  So it is reflexive, and it is      *)
(* false for strings that differ after trimming and have a non-integer     *)
(* field or different field counts.                                        *)
(***************************************************************************)
Compared == pc = "compared"
TrimmedEqual == TrimSpace(expected) = TrimSpace(actual)
SameFieldCount == Len(Fields(expected)) = Len(Fields(actual))
IsInteger(f) == ~Atoi(f).err
AllIntegers(fs) == \A i \in 1..Len(fs) : IsInteger(fs[i])
ActualAtLeastExpected ==
    \A i \in 1..Len(Fields(expected)) :
        Atoi(Fields(actual)[i]).n >= Atoi(Fields(expected)[i]).n

C17_CompareSysctlMeaning ==
    Compared =>
        /\ matches <=>
             \/ TrimmedEqual
             \/ /\ SameFieldCount
                /\ AllIntegers(Fields(expected))
                /\ AllIntegers(Fields(actual))
                /\ ActualAtLeastExpected
        /\ expected = actual => matches
        /\ (~TrimmedEqual /\ ~SameFieldCount) => ~matches
        /\ (~TrimmedEqual /\ ~(AllIntegers(Fields(expected))
                                 /\ AllIntegers(Fields(actual)))) => ~matches

\* "1 2" is expected and "2 2" is read: different strings that match
C17_Witness ==
    /\ Compared
    /\ expected = <<"1", " ", "2">>
    /\ actual = <<"2", " ", "2">>
    /\ matches

====
